---- MODULE Spec2Model ----
(***************************************************************************)
(* A model of the two health-data downloaders of this repository:          *)
(*   OuraDataDownloader   (src/oura/oura-downloader.js)                    *)
(*   GarminDataDownloader (src/README.md, lines 14-498)                    *)
(* One JavaScript thread of control runs one call at a time.  Each await   *)
(* of the source is a step of the model: a remote call being issued and    *)
(* completing, a sleep ending, a file being written.  The remote API, the  *)
(* file system and the process time zone are the environment: their        *)
(* outcomes are drawn nondeterministically.                                *)
(***************************************************************************)
EXTENDS Integers, Sequences, FiniteSets, TLC

(* ------------------------------ bounds --------------------------------- *)

\* retryOperation called directly takes attempts in -1..MaxAttempts.
MaxAttempts == 3
\* Calendar dates are numbered 0..MaxDay (day k is the k-th date after day 0).
MaxDay == 2
\* At most MaxFaults environment failures (failed remote calls, raising or
\* error-bearing day downloads) in one run.
MaxFaults == 3
\* At most MaxAuthCalls calls of login / loginWithTokens before the download.
MaxAuthCalls == 2

(* ------------------------- program constants --------------------------- *)

retryAttempts == 3
retryDelay == 2000

(* ------------------------------ values --------------------------------- *)

Null == "null"
EmptyList == "empty"
Undefined == "undefined"
Data == "data"

\* What a caller-supplied operation may resolve to.
Payloads == {"data", "other"}
\* Messages of the errors a remote call rejects with.
RemoteErrors == {"Request failed with status code 401", "network timeout"}

NotAuthMsg == "Not authenticated. Please login first."
SaveFailMsg == "Failed to save data: EIO"
DayFailMsg == "day download failed"

\* An error object: its message and the identity of the object (id).
Err(m, k) == [msg |-> m, id |-> k]
NoErr == Err("", 0)

Dates == 0..MaxDay

\* The process time zone: offset off0 (hours) before the UTC instant `at`,
\* off1 from then on.  UTC, a zone east of Greenwich that springs forward
\* and a zone west of Greenwich that falls back, both during day 1.
UtcZone == [off0 |-> 0, off1 |-> 0, at |-> 0]

Zones ==
  { UtcZone,
    [off0 |-> 1, off1 |-> 2, at |-> 24 + 1],
    [off0 |-> 0 - 4, off1 |-> 0 - 5, at |-> 24 + 6] }

(* --------------------------- date handling ----------------------------- *)

\* new Date('YYYY-MM-DD'): a date-only string is parsed as UTC midnight.
ParseDate(d) == d * 24

\* Date.prototype.toISOString().split('T')[0]: the UTC calendar date.
IsoDate(t) == t \div 24

\* formatDate of a Date object (the third branch).
formatDate(t) == IsoDate(t)

\* formatDate of a 'YYYY-MM-DD' string (the second branch): returned as is.
formatDateStr(d) == d

Offset(z, t) == IF t < z.at THEN z.off0 ELSE z.off1

\* UTC(tlocal) of ECMAScript: a local time that is skipped or repeated at a
\* transition is interpreted with the offset before the transition.
LocalToUtc(z, l) ==
  LET t0 == l - z.off0
      t1 == l - z.off1
  IN  IF t0 < z.at THEN t0 ELSE IF t1 >= z.at THEN t1 ELSE t0

\* currentDate.setDate(currentDate.getDate() + 1): one day later on the
\* local clock, same local time of day.
NextDay(z, t) == LocalToUtc(z, t + Offset(z, t) + 24)

(* ------------------------------ state ---------------------------------- *)

VARIABLES
  \* the downloader objects and the environment
  isAuthenticated,  \* GarminDataDownloader.isAuthenticated
  clientAuthed,     \* whether the client held in GCClient is an authenticated one
  tz,               \* the process time zone
  faults,           \* environment failures so far in this run
  authCalls,        \* login / loginWithTokens calls made so far
  \* the top-level call
  op,               \* the method called by the user of the class, "none" before
  result,           \* how that call ended
  \* retryOperation
  rpc, rAttempts, rI, rOut,
  opLog,            \* outcome of every attempt of the current retryOperation
  invocations,      \* times the operation was invoked by it
  delays,           \* sleeps (in ms) it performed, in order
  inflight,         \* remote calls issued and not yet completed
  \* the metric fetcher being executed
  fpc, fMetric, fOut, fCalls,
  paced,            \* a pacing sleep has ended since the last fetcher was called
  \* the day download being executed (downloadDayData / downloadAllData)
  dkind, dip, dphase, dayData, dErr,
  fetched,          \* the fetchers it has called, in order
  exhausted,        \* the metrics whose remote call failed on every attempt
  \* the range download being executed (downloadBulkData)
  bkind, bip, bphase, bulkData, bErr,
  currentDate,      \* the loop's Date object, as a UTC instant in hours
  endDate,          \* the Date object `end`, as a UTC instant in hours
  visited,          \* the dates downloadDayData was called with, in order
  dayLog,           \* how each of those calls ended
  atSave,           \* bulkData as it was when saveToDisk was first called
  disk,             \* the files written by the current run, in order
  \* the run as a whole
  remote,           \* how the remote API behaves in this run
  prevRun,          \* the outcome of an earlier run of the same day download
  now,              \* the clock read by new Date()
  mainpc,           \* the position of main(), "none" when it is not running
  exitCode,         \* the exit status of the process, -1 while it runs
  reported,         \* 'Download completed successfully!' has been logged
  mainLog           \* what main() has met so far

retryVars == <<rpc, rAttempts, rI, rOut, opLog, invocations, delays, inflight>>
fetchVars == <<fpc, fMetric, fOut, fCalls, paced>>
bulkVars ==
  <<bkind, bip, bphase, bulkData, bErr, currentDate, endDate, visited, dayLog,
    atSave>>
dayVars == <<dkind, dip, dphase, dayData, dErr, fetched, exhausted>>
envVars == <<isAuthenticated, clientAuthed, tz, faults, authCalls>>
topVars == <<op, result>>

orchVars == <<dayVars, bulkVars, disk>>
runVars == <<remote, prevRun, now, mainpc, exitCode, reported, mainLog>>

vars == <<envVars, topVars, retryVars, fetchVars, orchVars, runVars>>

NoOut == [kind |-> "none", val |-> Undefined, err |-> NoErr]
Returned(v) == [kind |-> "return", val |-> v, err |-> NoErr]
Thrown(e) == [kind |-> "throw", val |-> Undefined, err |-> e]

(* ---------------------------- the remote API --------------------------- *)

\* error messages that mention the status 401, or the network
Mentions401 == {"Request failed with status code 401"}
MentionsNetwork == {"network timeout"}

\* The remote API of a run: "live" (a call may fail at any time),
\* "unauthorized" (the credentials or the token are not accepted: every
\* call fails with status 401), or a stub with fixed answers: "stub"
\* answers every call, "stubSleepDown" fails every call of the sleep metric.
Stubs == {"stub", "stubSleepDown"}
RemoteKinds == {"live", "unauthorized"} \cup Stubs

NoRun == [out |-> "none"]

StubFails(r, m) == r = "stubSleepDown" /\ m = "sleep"

\* the remote call of the current attempt may succeed
MayResolve ==
  /\ remote # "unauthorized"
  /\ ~StubFails(remote, fMetric)

\* the messages the remote call of the current attempt may fail with
RejectMessages ==
  CASE remote = "unauthorized" -> Mentions401
    [] remote \in Stubs ->
         IF StubFails(remote, fMetric) THEN MentionsNetwork ELSE {}
    [] OTHER -> IF faults < MaxFaults THEN RemoteErrors ELSE {}

(* --------------------------- retryOperation ---------------------------- *)

\* a loop condition that lets one iteration too many through
LoopContinues_Inclusive(i, attempts) == i <= attempts

\* a do-while loop: the first attempt is made before the bound is tested
LoopContinues_AtLeastOnce(i, attempts) == i < attempts \/ i = 0

\* for (let i = 0; i < attempts; i++)
LoopContinues(i, attempts) == i < attempts

\* an isLastAttempt that is true one iteration too late
IsLastAttempt_OffByOne(i, attempts) == i = attempts

\* isLastAttempt = i === attempts - 1
IsLastAttempt(i, attempts) == i = attempts - 1

\* The frame of a retryOperation(operation, name, n) that has just been
\* entered: i = 0, nothing invoked, nothing slept.
RetryEnter(n) ==
  /\ rpc' = "loop"
  /\ rAttempts' = n
  /\ rI' = 0
  /\ rOut' = NoOut
  /\ opLog' = <<>>
  /\ invocations' = 0
  /\ delays' = <<>>
  /\ UNCHANGED inflight

RetryLeave ==
  /\ rpc' = "idle"
  /\ rAttempts' = 0
  /\ rI' = 0
  /\ rOut' = NoOut
  /\ opLog' = <<>>
  /\ invocations' = 0
  /\ delays' = <<>>
  /\ UNCHANGED inflight

\* a loop that starts its next attempt without awaiting the one in flight
RetryInvoke_Eager ==
  /\ rpc \in {"loop", "await"}
  /\ LoopContinues(rI, rAttempts)
  /\ inflight < 2
  /\ rpc' = "await"
  /\ invocations' = invocations + 1
  /\ inflight' = inflight + 1
  /\ fCalls' = IF fpc = "awaitRetry" THEN fCalls + 1 ELSE fCalls
  /\ UNCHANGED <<rAttempts, rI, rOut, opLog, delays>>
  /\ UNCHANGED <<fpc, fMetric, fOut, paced>>
  /\ UNCHANGED <<envVars, topVars, orchVars>>
  /\ UNCHANGED runVars

\* for (...; i < attempts; ...) { try { return await operation();
RetryInvoke ==
  /\ rpc = "loop"
  /\ LoopContinues(rI, rAttempts)
  /\ rpc' = "await"
  /\ invocations' = invocations + 1
  /\ inflight' = inflight + 1
  /\ fCalls' = IF fpc = "awaitRetry" THEN fCalls + 1 ELSE fCalls
  /\ UNCHANGED <<rAttempts, rI, rOut, opLog, delays>>
  /\ UNCHANGED <<fpc, fMetric, fOut, paced>>
  /\ UNCHANGED <<envVars, topVars, orchVars>>
  /\ UNCHANGED runVars

\* the loop ends without a return or a throw: the function returns undefined
RetryFallOff ==
  /\ rpc = "loop"
  /\ ~LoopContinues(rI, rAttempts)
  /\ rpc' = "done"
  /\ rOut' = [kind |-> "undefined", val |-> Undefined, err |-> NoErr]
  /\ UNCHANGED <<rAttempts, rI, opLog, invocations, delays, inflight>>
  /\ UNCHANGED <<envVars, topVars, fetchVars, orchVars>>
  /\ UNCHANGED runVars

\* What the awaited operation may resolve to: any payload for a
\* caller-supplied operation, the vendor's payload for a remote call.
ResolveValues == IF op = "retryOperation" THEN Payloads ELSE {Data}

\* the awaited value is dropped: `await operation(); return;`
AttemptReturn_Dropped(v) == Returned(Undefined)

\* return await operation();
AttemptReturn(v) == Returned(v)

\* a retry loop that gives up at once on an error that mentions 401
GivesUp_On401(e, i, attempts) ==
  IsLastAttempt(i, attempts) \/ e.msg \in Mentions401

\* if (isLastAttempt) { ...; throw error; }: the error caught is not looked at
GivesUp(e, i, attempts) == IsLastAttempt(i, attempts)

\* return await operation();   -- the operation resolved
\* (this.GCClient.login() resolving leaves the client authenticated)
OperationResolves ==
  /\ rpc = "await"
  /\ MayResolve
  /\ \E v \in ResolveValues :
       /\ rOut' = AttemptReturn(v)
       /\ opLog' = Append(opLog, Returned(v))
  /\ rpc' = "done"
  /\ inflight' = inflight - 1
  /\ clientAuthed' = IF op = "login" THEN TRUE ELSE clientAuthed
  /\ UNCHANGED <<rAttempts, rI, invocations, delays>>
  /\ UNCHANGED <<isAuthenticated, tz, faults, authCalls>>
  /\ UNCHANGED <<topVars, fetchVars, orchVars>>
  /\ UNCHANGED runVars

\* catch (error) { if (isLastAttempt) throw error; ... await this.sleep(
OperationRejects ==
  /\ rpc = "await"
  /\ faults' = IF remote = "live" THEN faults + 1 ELSE faults
  /\ inflight' = inflight - 1
  /\ \E m \in RejectMessages :
       LET e == Err(m, invocations)
       IN  /\ opLog' = Append(opLog, Thrown(e))
           /\ IF GivesUp(e, rI, rAttempts)
                THEN /\ rpc' = "done"
                     /\ rOut' = Thrown(e)
                ELSE /\ rpc' = "sleep"
                     /\ rOut' = NoOut
  /\ UNCHANGED <<rAttempts, rI, invocations, delays>>
  /\ UNCHANGED <<isAuthenticated, clientAuthed, tz, authCalls>>
  /\ UNCHANGED <<topVars, fetchVars, orchVars>>
  /\ UNCHANGED runVars

\* await this.sleep(this.retryDelay) has ended; i++
RetrySleepEnds ==
  /\ rpc = "sleep"
  /\ delays' = Append(delays, retryDelay)
  /\ rI' = rI + 1
  /\ rpc' = "loop"
  /\ UNCHANGED <<rAttempts, rOut, opLog, invocations, inflight>>
  /\ UNCHANGED <<envVars, topVars, fetchVars, orchVars>>
  /\ UNCHANGED runVars


(* ----------------------------- records --------------------------------- *)

NoRecord == [date |-> 0 - 1]

\* dayData of OuraDataDownloader.downloadDayData
OuraDayRecord(d) ==
  [date |-> d, downloadedAt |-> now, personalInfo |-> Null,
   sleep |-> EmptyList, activity |-> EmptyList,
   readiness |-> EmptyList, heartRate |-> EmptyList,
   workouts |-> EmptyList, sessions |-> EmptyList, tags |-> EmptyList,
   errors |-> <<>>]

\* dayData of GarminDataDownloader.downloadDayData
GarminDayRecord(d) ==
  [date |-> d, downloadedAt |-> now, dailySummary |-> Null,
   heartRate |-> Null, sleep |-> Null, stress |-> Null, errors |-> <<>>]

\* allData of GarminDataDownloader.downloadAllData
GarminAllRecord(d) ==
  [date |-> d, downloadedAt |-> now, profile |-> Null,
   dailySummary |-> Null, heartRate |-> Null, sleep |-> Null,
   stress |-> Null, activities |-> Null, errors |-> <<>>]

\* a range record of the Oura download shaped like the Garmin one
OuraBulkRecord_WithDays(s, e) ==
  [startDate |-> s, endDate |-> e, downloadedAt |-> now,
   personalInfo |-> Null, sleep |-> EmptyList, activity |-> EmptyList,
   readiness |-> EmptyList, heartRate |-> EmptyList, workouts |-> EmptyList,
   sessions |-> EmptyList, tags |-> EmptyList, restMode |-> EmptyList,
   ringConfiguration |-> EmptyList, errors |-> <<>>, dailyData |-> <<>>,
   summary |-> [totalDays |-> 0, successfulDays |-> 0, failedDays |-> 0]]

\* bulkData of OuraDataDownloader.downloadBulkData
OuraBulkRecord(s, e) ==
  [startDate |-> s, endDate |-> e, downloadedAt |-> now,
   personalInfo |-> Null, sleep |-> EmptyList, activity |-> EmptyList,
   readiness |-> EmptyList,
   heartRate |-> EmptyList, workouts |-> EmptyList, sessions |-> EmptyList,
   tags |-> EmptyList, restMode |-> EmptyList,
   ringConfiguration |-> EmptyList, errors |-> <<>>]

\* bulkData of GarminDataDownloader.downloadBulkData (it has no errors field)
GarminBulkRecord(s, e) ==
  [startDate |-> s, endDate |-> e, downloadedAt |-> now, profile |-> Null,
   activities |-> Null, dailyData |-> <<>>,
   summary |-> [totalDays |-> 0, successfulDays |-> 0, failedDays |-> 0]]

(* ----------------------- the orchestrators' bodies --------------------- *)

FetchStep(m) == [k |-> "fetch", m |-> m, ms |-> 0]
SleepStep(n) == [k |-> "sleep", m |-> "none", ms |-> n]
LoopStep == [k |-> "loop", m |-> "none", ms |-> 0]
SaveStep == [k |-> "save", m |-> "none", ms |-> 0]

\* the try block of OuraDataDownloader.downloadDayData
OuraDayBody ==
  << FetchStep("personalInfo"), SleepStep(500),
     FetchStep("sleep"), SleepStep(500),
     FetchStep("activity"), SleepStep(500),
     FetchStep("readiness"), SleepStep(500),
     FetchStep("heartRate"), SleepStep(500),
     FetchStep("workouts"), SleepStep(500),
     FetchStep("sessions"), SleepStep(500),
     FetchStep("tags"),
     SaveStep >>

\* a day download that fetches the sleep data before the heart rate
GarminDayBody_SleepFirst ==
  << FetchStep("dailySummary"), SleepStep(500),
     FetchStep("sleep"), SleepStep(500),
     FetchStep("heartRate"), SleepStep(500),
     FetchStep("stress"), SleepStep(500) >>

\* the try block of GarminDataDownloader.downloadDayData
GarminDayBody ==
  << FetchStep("dailySummary"), SleepStep(500),
     FetchStep("heartRate"), SleepStep(500),
     FetchStep("sleep"), SleepStep(500),
     FetchStep("stress"), SleepStep(500) >>

\* the try block of GarminDataDownloader.downloadAllData
GarminAllBody ==
  << FetchStep("profile"), SleepStep(500),
     FetchStep("dailySummary"), SleepStep(500),
     FetchStep("heartRate"), SleepStep(500),
     FetchStep("sleep"), SleepStep(500),
     FetchStep("stress"), SleepStep(500),
     FetchStep("activities"),
     SaveStep >>

\* the try block of OuraDataDownloader.downloadBulkData
OuraBulkBody ==
  << FetchStep("personalInfo"), SleepStep(500),
     FetchStep("sleep"), SleepStep(500),
     FetchStep("activity"), SleepStep(500),
     FetchStep("readiness"), SleepStep(500),
     FetchStep("heartRate"), SleepStep(500),
     FetchStep("workouts"), SleepStep(500),
     FetchStep("sessions"), SleepStep(500),
     FetchStep("tags"), SleepStep(500),
     FetchStep("restMode"), SleepStep(500),
     FetchStep("ringConfiguration"),
     SaveStep >>

\* a range download that does not pause between its fetches
GarminBulkBody_Unpaced ==
  << FetchStep("profile"), FetchStep("activities"), LoopStep, SaveStep >>

\* the try block of GarminDataDownloader.downloadBulkData
GarminBulkBody ==
  << FetchStep("profile"), SleepStep(1000),
     FetchStep("activities"), SleepStep(1000),
     LoopStep,
     SaveStep >>

DayBody(kind) ==
  CASE kind = "ouraDay" -> OuraDayBody
    [] kind = "garminDay" -> GarminDayBody
    [] kind = "garminAll" -> GarminAllBody
    [] OTHER -> <<>>

BulkBody(kind) ==
  CASE kind = "ouraBulk" -> OuraBulkBody
    [] kind = "garminBulk" -> GarminBulkBody
    [] OTHER -> <<>>

\* the metrics a body fetches, in the order of its text
RECURSIVE MetricsOf(_)
MetricsOf(body) ==
  IF body = <<>> THEN <<>>
  ELSE IF Head(body).k = "fetch"
         THEN <<Head(body).m>> \o MetricsOf(Tail(body))
         ELSE MetricsOf(Tail(body))

(* --------------------------- metric fetchers --------------------------- *)

OuraOps == {"ouraDay", "ouraBulk"}
GarminOps == {"garminDay", "garminAll", "garminBulk"}

\* what a fetcher's catch block returns: null for personal info / profile
\* and the Garmin per-day metrics, [] for the list-shaped metrics
Degraded(vendor, m) ==
  IF vendor = "oura"
    THEN IF m = "personalInfo" THEN Null ELSE EmptyList
    ELSE IF m = "activities" THEN EmptyList ELSE Null

\* fetchers without the authentication check
GuardRejects_Never(vendor, authed) == FALSE

\* a guard that rejects every call of a Garmin fetcher
GuardRejects_Always(vendor, authed) == vendor = "garmin"

\* if (!this.isAuthenticated) throw ...: only the Garmin fetchers have it
GuardRejects(vendor, authed) == vendor = "garmin" /\ ~authed

Vendor == IF op \in OuraOps THEN "oura" ELSE "garmin"

\* the frame of a fetcher that has just been called
FetcherCall(m) ==
  /\ fpc' = "entered"
  /\ fMetric' = m
  /\ fOut' = NoOut
  /\ fCalls' = 0
  /\ paced' = FALSE

FetcherLeave ==
  /\ fpc' = "idle"
  /\ fMetric' = "none"
  /\ fOut' = NoOut
  /\ fCalls' = 0
  /\ UNCHANGED paced

\* if (!this.isAuthenticated) throw new Error('Not authenticated. ...')
FetcherGuardThrows ==
  /\ fpc = "entered"
  /\ GuardRejects(Vendor, isAuthenticated)
  /\ fpc' = "done"
  /\ fOut' = Thrown(Err(NotAuthMsg, 0))
  /\ UNCHANGED <<fMetric, fCalls, paced>>
  /\ UNCHANGED <<envVars, topVars, retryVars, orchVars>>
  /\ UNCHANGED runVars

\* try { const response = await this.retryOperation(() => ..., name);
FetcherCallsRetry ==
  /\ fpc = "entered"
  /\ ~GuardRejects(Vendor, isAuthenticated)
  /\ fpc' = "awaitRetry"
  /\ RetryEnter(retryAttempts)
  /\ UNCHANGED <<fMetric, fOut, fCalls, paced>>
  /\ UNCHANGED <<envVars, topVars, orchVars>>
  /\ UNCHANGED runVars

\* ... return response.data.data;   (Garmin: return summary)
\* reading a property of undefined raises inside the try block
FetcherReturns ==
  /\ fpc = "awaitRetry"
  /\ rpc = "done"
  /\ rOut.kind \in {"return", "undefined"}
  /\ fpc' = "done"
  /\ fOut' = IF rOut.kind = "return" THEN Returned(rOut.val)
             ELSE Returned(Degraded(Vendor, fMetric))
  /\ RetryLeave
  /\ UNCHANGED <<fMetric, fCalls, paced>>
  /\ UNCHANGED <<envVars, topVars, orchVars>>
  /\ UNCHANGED runVars

\* a fetcher whose catch block throws the error it caught
CatchReturn_ThrowsCaught(vendor, m) == Thrown(rOut.err)

\* a fetcher whose catch block throws the error again
CatchReturn_Rethrows(vendor, m) == Thrown(Err("remote call failed", 0))

\* } catch (error) { console.error(...); return null; }   (or return [])
CatchReturn(vendor, m) == Returned(Degraded(vendor, m))

\* the retries of the fetcher's remote call are exhausted
FetcherCatches ==
  /\ fpc = "awaitRetry"
  /\ rpc = "done"
  /\ rOut.kind = "throw"
  /\ fpc' = "done"
  /\ fOut' = CatchReturn(Vendor, fMetric)
  /\ exhausted' = exhausted \cup {fMetric}
  /\ RetryLeave
  /\ UNCHANGED <<fMetric, fCalls, paced>>
  /\ UNCHANGED <<dkind, dip, dphase, dayData, dErr, fetched>>
  /\ UNCHANGED <<envVars, topVars, bulkVars, disk>>
  /\ UNCHANGED runVars

(* ------------------------------ saveToDisk ----------------------------- *)

\* file names that never carry the _partial suffix
FileName_NeverPartial(prefix, dates, partial) ==
  [prefix |-> prefix, dates |-> dates, partial |-> FALSE]

\* `<prefix>_<date>.json`, `<prefix>_<start>_to_<end>.json`, and the same
\* with `_partial` before the extension
FileName(prefix, dates, partial) ==
  [prefix |-> prefix, dates |-> dates, partial |-> partial]

\* await fs.writeFile(filePath, JSON.stringify(data, null, 2))
Written(files, name, data) == Append(files, [name |-> name, data |-> data])

\* throw new Error(`Failed to save data: ${error.message}`): a new error
\* object for every failed save
SaveError(n) == Err(SaveFailMsg, n)

(* ---------------- downloadDayData / downloadAllData -------------------- *)

DayPrefix(kind) == IF kind = "ouraDay" THEN "oura_data" ELSE "garmin_data"

DayRecord(kind, d) ==
  CASE kind = "ouraDay" -> OuraDayRecord(d)
    [] kind = "garminDay" -> GarminDayRecord(d)
    [] OTHER -> GarminAllRecord(d)

\* a day download whose record starts with the errors left by the last one
DayEnter_KeepsErrors(kind, d) ==
  /\ dkind' = kind
  /\ dip' = 1
  /\ dphase' = "run"
  /\ dayData' = [DayRecord(kind, formatDateStr(d)) EXCEPT
                   !.errors = IF "errors" \in DOMAIN dayData
                               THEN dayData.errors ELSE <<>>]
  /\ dErr' = NoErr
  /\ fetched' = <<>>
  /\ exhausted' = {}

\* const formattedDate = this.formatDate(date); const dayData = {...}; try {
DayEnter(kind, d) ==
  /\ dkind' = kind
  /\ dip' = 1
  /\ dphase' = "run"
  /\ dayData' = DayRecord(kind, formatDateStr(d))
  /\ dErr' = NoErr
  /\ fetched' = <<>>
  /\ exhausted' = {}

DayLeave ==
  /\ dkind' = "none"
  /\ dip' = 0
  /\ dphase' = "idle"
  /\ dayData' = NoRecord
  /\ dErr' = NoErr
  /\ fetched' = <<>>
  /\ exhausted' = {}

DayAt(k) ==
  /\ dphase = "run"
  /\ dip \in 1..Len(DayBody(dkind))
  /\ DayBody(dkind)[dip].k = k

\* dayData.X = await this.getX(...)      -- the call
DayCallsFetcher ==
  /\ DayAt("fetch")
  /\ FetcherCall(DayBody(dkind)[dip].m)
  /\ fetched' = Append(fetched, DayBody(dkind)[dip].m)
  /\ dphase' = "fetching"
  /\ UNCHANGED <<dkind, dip, dayData, dErr, exhausted>>
  /\ UNCHANGED <<envVars, topVars, retryVars, bulkVars, disk>>
  /\ UNCHANGED runVars

\* dayData.X = await this.getX(...)      -- the assignment
DayStoresMetric ==
  /\ dphase = "fetching"
  /\ fpc = "done"
  /\ fOut.kind = "return"
  /\ dayData' = [dayData EXCEPT ![fMetric] = fOut.val]
  /\ dip' = dip + 1
  /\ dphase' = "run"
  /\ FetcherLeave
  /\ UNCHANGED <<dkind, dErr, fetched, exhausted>>
  /\ UNCHANGED <<envVars, topVars, retryVars, bulkVars, disk>>
  /\ UNCHANGED runVars

\* await this.sleep(500);
DaySleepEnds ==
  /\ DayAt("sleep")
  /\ dip' = dip + 1
  /\ paced' = TRUE
  /\ UNCHANGED <<fpc, fMetric, fOut, fCalls>>
  /\ UNCHANGED <<dkind, dphase, dayData, dErr, fetched, exhausted>>
  /\ UNCHANGED <<envVars, topVars, retryVars, bulkVars, disk>>
  /\ UNCHANGED runVars

\* What the catch block of the day download does after
\* errors.push(error.message): GarminDataDownloader.downloadDayData goes on
\* to `return dayData`; the two others save under the _partial name and
\* throw the error again.
\* a catch block that saves and throws again in every day download
DayCatchPhase_AlwaysPartial(kind) == "partial"

DayCatchPhase(kind) == IF kind = "garminDay" THEN "returned" ELSE "partial"

\* a catch block that starts the record afresh before it notes the error
DayCatch_ClearsRecord(e) ==
  /\ dayData' = [DayRecord(dkind, dayData.date) EXCEPT !.errors = <<e.msg>>]
  /\ dErr' = e
  /\ dphase' = DayCatchPhase(dkind)

\* } catch (error) { dayData.errors.push(error.message); ...
DayCatch(e) ==
  /\ dayData' = [dayData EXCEPT !.errors = Append(@, e.msg)]
  /\ dErr' = e
  /\ dphase' = DayCatchPhase(dkind)

\* a day download that notes the error of a fetcher and goes on with the
\* next one
DayCatchesFetcherError_Continues ==
  /\ dphase = "fetching"
  /\ fpc = "done"
  /\ fOut.kind = "throw"
  /\ dayData' = [dayData EXCEPT !.errors = Append(@, fOut.err.msg)]
  /\ dErr' = fOut.err
  /\ dphase' = "run"
  /\ dip' = dip + 1
  /\ FetcherLeave
  /\ UNCHANGED <<dkind, fetched, exhausted>>
  /\ UNCHANGED <<envVars, topVars, retryVars, bulkVars, disk>>
  /\ UNCHANGED runVars

\* an error thrown by a fetcher (outside its own try block) is caught
DayCatchesFetcherError ==
  /\ dphase = "fetching"
  /\ fpc = "done"
  /\ fOut.kind = "throw"
  /\ DayCatch(fOut.err)
  /\ FetcherLeave
  /\ UNCHANGED <<dkind, dip, fetched, exhausted>>
  /\ UNCHANGED <<envVars, topVars, retryVars, bulkVars, disk>>
  /\ UNCHANGED runVars

\* await this.saveToDisk(dayData, fileName); ...; return dayData;
DaySaveSucceeds ==
  /\ DayAt("save")
  /\ disk' = Written(disk, FileName(DayPrefix(dkind), <<dayData.date>>, FALSE),
                     dayData)
  /\ dphase' = "returned"
  /\ UNCHANGED <<dkind, dip, dayData, dErr, fetched, exhausted>>
  /\ UNCHANGED <<envVars, topVars, retryVars, fetchVars, bulkVars>>
  /\ UNCHANGED runVars

\* saveToDisk throws: the catch block of the day download runs
DaySaveFails ==
  /\ DayAt("save")
  /\ DayCatch(SaveError(1))
  /\ UNCHANGED <<dkind, dip, fetched, exhausted>>
  /\ UNCHANGED <<envVars, topVars, retryVars, fetchVars, bulkVars, disk>>
  /\ UNCHANGED runVars

\* await this.saveToDisk(dayData, `..._partial.json`); throw error;
DayPartialSaveSucceeds ==
  /\ dphase = "partial"
  /\ disk' = Written(disk, FileName(DayPrefix(dkind), <<dayData.date>>, TRUE),
                     dayData)
  /\ dphase' = "raised"
  /\ UNCHANGED <<dkind, dip, dayData, dErr, fetched, exhausted>>
  /\ UNCHANGED <<envVars, topVars, retryVars, fetchVars, bulkVars>>
  /\ UNCHANGED runVars

\* the save under the _partial name throws: its error leaves the catch block
DayPartialSaveFails ==
  /\ dphase = "partial"
  /\ dErr' = SaveError(2)
  /\ dphase' = "raised"
  /\ UNCHANGED <<dkind, dip, dayData, fetched, exhausted>>
  /\ UNCHANGED <<envVars, topVars, retryVars, fetchVars, bulkVars, disk>>
  /\ UNCHANGED runVars

\* the try block of downloadDayData (Garmin) ended: return dayData;
DayBodyEnds ==
  /\ dphase = "run"
  /\ dip = Len(DayBody(dkind)) + 1
  /\ dphase' = "returned"
  /\ UNCHANGED <<dkind, dip, dayData, dErr, fetched, exhausted>>
  /\ UNCHANGED <<envVars, topVars, retryVars, fetchVars, bulkVars, disk>>
  /\ UNCHANGED runVars

(* -------------------------- downloadBulkData -------------------------- *)

BulkPrefix(kind) == IF kind = "ouraBulk" THEN "oura_bulk" ELSE "garmin_bulk"

BulkAt(k) ==
  /\ bphase = "run"
  /\ bip \in 1..Len(BulkBody(bkind))
  /\ BulkBody(bkind)[bip].k = k

BulkEnter(kind, rec) ==
  /\ bkind' = kind
  /\ bip' = 1
  /\ bphase' = "run"
  /\ bulkData' = rec
  /\ bErr' = NoErr
  /\ visited' = <<>>
  /\ dayLog' = <<>>
  /\ atSave' = NoRecord

\* bulkData.X = await this.getX(...)      -- the call
BulkCallsFetcher ==
  /\ BulkAt("fetch")
  /\ FetcherCall(BulkBody(bkind)[bip].m)
  /\ bphase' = "fetching"
  /\ UNCHANGED <<bkind, bip, bulkData, bErr, currentDate, endDate, visited,
                 dayLog, atSave>>
  /\ UNCHANGED <<envVars, topVars, retryVars, dayVars, disk>>
  /\ UNCHANGED runVars

\* What the catch block of the range download does with the error: the Oura
\* one pushes its message on bulkData.errors and saves under the _partial
\* name before throwing it again, the Garmin one throws it again at once.
BulkCatchPhase(kind) == IF kind = "ouraBulk" THEN "partial" ELSE "raised"

\* a catch block that starts the range record's accumulated results afresh
BulkCatchRecord_Reset(kind, rec, e) ==
  IF kind = "ouraBulk"
    THEN [rec EXCEPT !.sleep = EmptyList, !.errors = Append(@, e.msg)]
    ELSE [rec EXCEPT !.dailyData = <<>>]

\* (Oura) bulkData.errors.push(error.message); the Garmin catch block leaves
\* bulkData as it is
BulkCatchRecord(kind, rec, e) ==
  IF kind = "ouraBulk" THEN [rec EXCEPT !.errors = Append(@, e.msg)] ELSE rec

\* } catch (error) { console.error('Bulk download failed:', ...); ...
BulkCatch(e) ==
  /\ bulkData' = BulkCatchRecord(bkind, bulkData, e)
  /\ bErr' = e
  /\ bphase' = BulkCatchPhase(bkind)

\* bulkData.X = await this.getX(...)      -- the assignment, or the jump to
\* the catch block when the fetcher threw
BulkFetcherEnds ==
  /\ bphase = "fetching"
  /\ fpc = "done"
  /\ IF fOut.kind = "return"
       THEN /\ bulkData' = [bulkData EXCEPT ![fMetric] = fOut.val]
            /\ bip' = bip + 1
            /\ bphase' = "run"
            /\ UNCHANGED bErr
       ELSE /\ BulkCatch(fOut.err)
            /\ UNCHANGED bip
  /\ FetcherLeave
  /\ UNCHANGED <<bkind, currentDate, endDate, visited, dayLog, atSave>>
  /\ UNCHANGED <<envVars, topVars, retryVars, dayVars, disk>>
  /\ UNCHANGED runVars

\* await this.sleep(500);   (Garmin: 1000)
BulkSleepEnds ==
  /\ BulkAt("sleep")
  /\ bip' = bip + 1
  /\ paced' = TRUE
  /\ UNCHANGED <<fpc, fMetric, fOut, fCalls>>
  /\ UNCHANGED <<bkind, bphase, bulkData, bErr, currentDate, endDate, visited,
                 dayLog, atSave>>
  /\ UNCHANGED <<envVars, topVars, retryVars, dayVars, disk>>
  /\ UNCHANGED runVars

\* while (currentDate <= end)
LoopCondition(cur, end) == cur <= end

\* while (currentDate <= end) { const dateStr = this.formatDate(currentDate);
\*   try { const dayData = await this.downloadDayData(dateStr);   -- the call
BulkCallsDayDownload ==
  /\ BulkAt("loop")
  /\ LoopCondition(currentDate, endDate)
  /\ DayEnter("garminDay", formatDate(currentDate))
  /\ visited' = Append(visited, formatDate(currentDate))
  /\ bphase' = "day"
  /\ UNCHANGED <<bkind, bip, bulkData, bErr, currentDate, endDate, dayLog,
                 atSave>>
  /\ UNCHANGED <<envVars, topVars, retryVars, fetchVars, disk>>
  /\ UNCHANGED runVars

\* the loop condition is false: the loop is left
BulkLoopEnds ==
  /\ BulkAt("loop")
  /\ ~LoopCondition(currentDate, endDate)
  /\ bip' = bip + 1
  /\ UNCHANGED <<bkind, bphase, bulkData, bErr, currentDate, endDate, visited,
                 dayLog, atSave>>
  /\ UNCHANGED <<envVars, topVars, retryVars, fetchVars, dayVars, disk>>
  /\ UNCHANGED runVars

\* The loop awaits this.downloadDayData inside a try block of its own, and
\* the class is exported: the method awaited may be another one than the
\* one written here (an override, a stub).  Such a downloadDayData may
\* return a record that carries an error, ...
OtherDayReturnsErrors ==
  /\ op = "garminBulk"
  /\ bphase = "day"
  /\ dphase = "run"
  /\ dip = 1
  /\ faults < MaxFaults
  /\ faults' = faults + 1
  /\ dkind' = "otherDay"
  /\ dayData' = [dayData EXCEPT !.errors = <<DayFailMsg>>]
  /\ dErr' = Err(DayFailMsg, 0)
  /\ dphase' = "returned"
  /\ UNCHANGED <<dip, fetched, exhausted>>
  /\ UNCHANGED <<isAuthenticated, clientAuthed, tz, authCalls>>
  /\ UNCHANGED <<topVars, retryVars, fetchVars, bulkVars, disk>>
  /\ UNCHANGED runVars

\* ... or raise, so that the awaited promise rejects.
OtherDayRaises ==
  /\ op = "garminBulk"
  /\ bphase = "day"
  /\ dphase = "run"
  /\ dip = 1
  /\ faults < MaxFaults
  /\ faults' = faults + 1
  /\ dkind' = "otherDay"
  /\ dErr' = Err(DayFailMsg, 0)
  /\ dphase' = "raised"
  /\ UNCHANGED <<dip, dayData, fetched, exhausted>>
  /\ UNCHANGED <<isAuthenticated, clientAuthed, tz, authCalls>>
  /\ UNCHANGED <<topVars, retryVars, fetchVars, bulkVars, disk>>
  /\ UNCHANGED runVars

\* how a call of downloadDayData ended, as the loop body sees it
DayOutcome(phase, rec) ==
  IF phase = "raised" THEN "raised"
  ELSE IF Len(rec.errors) = 0 THEN "clean" ELSE "errors"

\* an accounting that counts a day returned with errors as successful
Account_ErrorsAsSuccess(summary, outcome) ==
  IF outcome = "raised"
    THEN [summary EXCEPT !.failedDays = @ + 1]
    ELSE [summary EXCEPT !.totalDays = @ + 1, !.successfulDays = @ + 1]

\* bulkData.summary after the loop body has accounted for one day:
\*   try { ...; totalDays++; if (dayData.errors.length === 0)
\*     successfulDays++; else failedDays++; } catch (error) { failedDays++; }
Account(summary, outcome) ==
  CASE outcome = "clean" ->
         [summary EXCEPT !.totalDays = @ + 1, !.successfulDays = @ + 1]
    [] outcome = "errors" ->
         [summary EXCEPT !.totalDays = @ + 1, !.failedDays = @ + 1]
    [] OTHER ->
         [summary EXCEPT !.failedDays = @ + 1]

\* bulkData.dailyData after the loop body: dayData is pushed when the call
\* returned, nothing is when it raised
Accumulate(days, outcome, rec) ==
  IF outcome = "raised" THEN days ELSE Append(days, rec)

\* the rest of the loop body's try / catch, once downloadDayData has settled
BulkAccountsDay ==
  /\ bphase = "day"
  /\ dphase \in {"returned", "raised"}
  /\ LET outcome == DayOutcome(dphase, dayData)
     IN  /\ bulkData' =
               [bulkData EXCEPT
                  !.dailyData = Accumulate(@, outcome, dayData),
                  !.summary = Account(@, outcome)]
         /\ dayLog' = Append(dayLog, [raised |-> dphase = "raised",
                                      errors |-> dayData.errors,
                                      msg |-> dErr.msg])
  /\ bphase' = "advance"
  /\ DayLeave
  /\ UNCHANGED <<bkind, bip, bErr, currentDate, endDate, visited, atSave>>
  /\ UNCHANGED <<envVars, topVars, retryVars, fetchVars, disk>>
  /\ UNCHANGED runVars

\* currentDate.setDate(currentDate.getDate() + 1); await this.sleep(1000); }
BulkNextDay ==
  /\ bphase = "advance"
  /\ currentDate' = NextDay(tz, currentDate)
  /\ paced' = TRUE
  /\ bphase' = "run"
  /\ UNCHANGED <<fpc, fMetric, fOut, fCalls>>
  /\ UNCHANGED <<bkind, bip, bulkData, bErr, endDate, visited, dayLog, atSave>>
  /\ UNCHANGED <<envVars, topVars, retryVars, dayVars, disk>>
  /\ UNCHANGED runVars

BulkDates(rec) == <<rec.startDate, rec.endDate>>

\* await this.saveToDisk(bulkData, fileName); ...; return bulkData;
BulkSaveSucceeds ==
  /\ BulkAt("save")
  /\ atSave' = bulkData
  /\ disk' = Written(disk, FileName(BulkPrefix(bkind), BulkDates(bulkData),
                                    FALSE), bulkData)
  /\ bphase' = "returned"
  /\ UNCHANGED <<bkind, bip, bulkData, bErr, currentDate, endDate, visited,
                 dayLog>>
  /\ UNCHANGED <<envVars, topVars, retryVars, fetchVars, dayVars>>
  /\ UNCHANGED runVars

\* saveToDisk throws: the catch block of the range download runs
BulkSaveFails ==
  /\ BulkAt("save")
  /\ atSave' = bulkData
  /\ BulkCatch(SaveError(1))
  /\ UNCHANGED <<bkind, bip, currentDate, endDate, visited, dayLog>>
  /\ UNCHANGED <<envVars, topVars, retryVars, fetchVars, dayVars, disk>>
  /\ UNCHANGED runVars

\* (Oura) await this.saveToDisk(bulkData, `..._partial.json`); throw error;
BulkPartialSaveSucceeds ==
  /\ bphase = "partial"
  /\ disk' = Written(disk, FileName(BulkPrefix(bkind), BulkDates(bulkData),
                                    TRUE), bulkData)
  /\ bphase' = "raised"
  /\ UNCHANGED <<bkind, bip, bulkData, bErr, currentDate, endDate, visited,
                 dayLog, atSave>>
  /\ UNCHANGED <<envVars, topVars, retryVars, fetchVars, dayVars>>
  /\ UNCHANGED runVars

\* (Oura) the save under the _partial name throws: its error leaves the
\* catch block
BulkPartialSaveFails ==
  /\ bphase = "partial"
  /\ bErr' = SaveError(2)
  /\ bphase' = "raised"
  /\ UNCHANGED <<bkind, bip, bulkData, currentDate, endDate, visited, dayLog,
                 atSave>>
  /\ UNCHANGED <<envVars, topVars, retryVars, fetchVars, dayVars, disk>>
  /\ UNCHANGED runVars

BulkOps == {"ouraBulk", "garminBulk"}

\* OuraDataDownloader.downloadBulkData(startDate, endDate):
\* const start = this.formatDate(startDate); ...; const bulkData = {...}
CallOuraDownloadBulkData ==
  /\ op = "none"
  /\ mainpc = "none"
  /\ authCalls = 0
  /\ op' = "ouraBulk"
  /\ result' = NoOut
  /\ \E s \in Dates, e \in Dates :
       BulkEnter("ouraBulk", OuraBulkRecord(formatDateStr(s), formatDateStr(e)))
  /\ UNCHANGED <<currentDate, endDate>>
  /\ faults' = 0
  /\ UNCHANGED <<isAuthenticated, clientAuthed, tz, authCalls>>
  /\ UNCHANGED <<retryVars, fetchVars, dayVars, disk>>
  /\ UNCHANGED runVars

\* GarminDataDownloader.downloadBulkData(startDate, endDate):
\* if (!this.isAuthenticated) throw ...; const start = new Date(startDate);
\* const end = new Date(endDate); const bulkData = {...};
\* the process runs in some time zone
\* a range download that walks the interval between the two dates whatever
\* their order
CallGarminDownloadBulkData_OrdersRange ==
  /\ op = "none"
  /\ mainpc = "none"
  /\ op' = "garminBulk"
  /\ IF isAuthenticated
       THEN /\ \E s \in Dates, e \in Dates :
                 /\ BulkEnter("garminBulk",
                              GarminBulkRecord(formatDate(ParseDate(s)),
                                               formatDate(ParseDate(e))))
                 /\ currentDate' = ParseDate(IF s <= e THEN s ELSE e)
                 /\ endDate' = ParseDate(IF s <= e THEN e ELSE s)
            /\ tz' \in Zones
            /\ result' = NoOut
       ELSE /\ result' = Thrown(Err(NotAuthMsg, 0))
            /\ UNCHANGED <<bulkVars, tz>>
  /\ faults' = 0
  /\ UNCHANGED <<isAuthenticated, clientAuthed, authCalls>>
  /\ UNCHANGED <<retryVars, fetchVars, dayVars, disk>>
  /\ UNCHANGED runVars

CallGarminDownloadBulkData ==
  /\ op = "none"
  /\ mainpc = "none"
  /\ op' = "garminBulk"
  /\ IF isAuthenticated
       THEN /\ \E s \in Dates, e \in Dates :
                 /\ BulkEnter("garminBulk",
                              GarminBulkRecord(formatDate(ParseDate(s)),
                                               formatDate(ParseDate(e))))
                 /\ currentDate' = ParseDate(s)
                 /\ endDate' = ParseDate(e)
            /\ tz' \in Zones
            /\ result' = NoOut
       ELSE /\ result' = Thrown(Err(NotAuthMsg, 0))
            /\ UNCHANGED <<bulkVars, tz>>
  /\ faults' = 0
  /\ UNCHANGED <<isAuthenticated, clientAuthed, authCalls>>
  /\ UNCHANGED <<retryVars, fetchVars, dayVars, disk>>
  /\ UNCHANGED runVars

\* the promise of the range download settles
BulkDownloadEnds ==
  /\ op \in BulkOps
  /\ result = NoOut
  /\ bphase \in {"returned", "raised"}
  /\ result' = IF bphase = "returned" THEN Returned("bulkData") ELSE Thrown(bErr)
  /\ UNCHANGED <<op, envVars, retryVars, fetchVars, orchVars>>
  /\ UNCHANGED runVars

(* ---------------------- login / loginWithTokens ------------------------ *)

Credentials == {"given", "missing"}
TokenFiles == {"valid", "absent", "incomplete"}


\* the message of the error login() throws for an error of retryOperation
LoginErrorMessage(m) ==
  IF m \in Mentions401
    THEN "Invalid username or password. Please check your credentials."
  ELSE IF m \in MentionsNetwork
    THEN "Network error. Please check your internet connection."
  ELSE "Login failed"

\* GarminDataDownloader.login(username, password):
\* if (!username || !password) throw ...;
\* try { this.GCClient = new GarminConnect({...});
\*       await this.retryOperation(() => this.GCClient.login(), 'Login');
CallLogin ==
  /\ op = "none"
  /\ mainpc = "none"
  /\ authCalls < MaxAuthCalls
  /\ authCalls' = authCalls + 1
  /\ faults' = 0
  /\ \E c \in Credentials :
       IF c = "missing"
         THEN /\ result' = Thrown(Err("Username and password are required", 0))
              /\ UNCHANGED <<op, clientAuthed, retryVars>>
         ELSE /\ op' = "login"
              /\ result' = NoOut
              /\ clientAuthed' = FALSE
              /\ RetryEnter(retryAttempts)
  /\ UNCHANGED <<isAuthenticated, tz>>
  /\ UNCHANGED <<fetchVars, orchVars>>
  /\ UNCHANGED runVars

\* ... this.isAuthenticated = true; return true;
\* } catch (error) { ... throw new Error(...) }
LoginEnds ==
  /\ op = "login"
  /\ rpc = "done"
  /\ IF rOut.kind = "throw"
       THEN /\ result' = Thrown(Err(LoginErrorMessage(rOut.err.msg), 0))
            /\ UNCHANGED isAuthenticated
       ELSE /\ result' = Returned("true")
            /\ isAuthenticated' = TRUE
  /\ op' = "none"
  /\ RetryLeave
  /\ UNCHANGED <<clientAuthed, tz, faults, authCalls>>
  /\ UNCHANGED <<fetchVars, orchVars>>
  /\ UNCHANGED runVars

\* GarminDataDownloader.loginWithTokens(tokenFile): the tokens of a valid
\* file are set on the client held in GCClient
LoginWithTokens ==
  /\ op = "none"
  /\ mainpc = "none"
  /\ authCalls < MaxAuthCalls
  /\ authCalls' = authCalls + 1
  /\ \E f \in TokenFiles :
       CASE f = "valid" ->
              /\ clientAuthed' = TRUE
              /\ isAuthenticated' = TRUE
              /\ result' = Returned("true")
         [] f = "absent" ->
              /\ result' = Thrown(Err("Token file not found. Please run the Python token generator first.", 0))
              /\ UNCHANGED <<clientAuthed, isAuthenticated>>
         [] OTHER ->
              /\ result' = Thrown(Err("Token authentication failed: Invalid token file. Please regenerate tokens.", 0))
              /\ UNCHANGED <<clientAuthed, isAuthenticated>>
  /\ UNCHANGED <<op, tz, faults>>
  /\ UNCHANGED <<retryVars, fetchVars, orchVars>>
  /\ UNCHANGED runVars

(* ---------------- the day downloads called directly -------------------- *)

DayOps == {"ouraDay", "garminDay", "garminAll"}

\* new OuraDataDownloader(token).downloadDayData(date)
CallOuraDownloadDayData ==
  /\ op = "none"
  /\ mainpc = "none"
  /\ authCalls = 0
  /\ op' = "ouraDay"
  /\ result' = NoOut
  /\ \E d \in Dates : DayEnter("ouraDay", d)
  /\ faults' = 0
  /\ UNCHANGED <<isAuthenticated, clientAuthed, tz, authCalls>>
  /\ UNCHANGED <<retryVars, fetchVars, bulkVars, disk>>
  /\ remote' \in RemoteKinds
  /\ UNCHANGED <<prevRun, now, mainpc, exitCode, reported, mainLog>>

\* GarminDataDownloader.downloadDayData(date): it has no authentication check
CallGarminDownloadDayData ==
  /\ op = "none"
  /\ mainpc = "none"
  /\ op' = "garminDay"
  /\ result' = NoOut
  /\ \E d \in Dates : DayEnter("garminDay", d)
  /\ faults' = 0
  /\ UNCHANGED <<isAuthenticated, clientAuthed, tz, authCalls>>
  /\ UNCHANGED <<retryVars, fetchVars, bulkVars, disk>>
  /\ remote' \in RemoteKinds
  /\ UNCHANGED <<prevRun, now, mainpc, exitCode, reported, mainLog>>

\* GarminDataDownloader.downloadAllData(date):
\* if (!this.isAuthenticated) throw ...; then as the day download
CallGarminDownloadAllData ==
  /\ op = "none"
  /\ mainpc = "none"
  /\ op' = "garminAll"
  /\ IF isAuthenticated
       THEN /\ \E d \in Dates : DayEnter("garminAll", d)
            /\ result' = NoOut
       ELSE /\ result' = Thrown(Err(NotAuthMsg, 0))
            /\ UNCHANGED dayVars
  /\ faults' = 0
  /\ UNCHANGED <<isAuthenticated, clientAuthed, tz, authCalls>>
  /\ UNCHANGED <<retryVars, fetchVars, bulkVars, disk>>
  /\ UNCHANGED runVars

\* the promise of the day download settles; a new Date() read later is later
DayDownloadEnds ==
  /\ op \in DayOps
  /\ result = NoOut
  /\ dphase \in {"returned", "raised"}
  /\ result' = IF dphase = "returned" THEN Returned("dayData") ELSE Thrown(dErr)
  /\ UNCHANGED <<op, envVars, retryVars, fetchVars, orchVars>>
  /\ now' = now + 1
  /\ UNCHANGED <<remote, prevRun, mainpc, exitCode, reported, mainLog>>

(* ------------------- retryOperation called directly -------------------- *)

CallRetryOperation ==
  /\ op = "none"
  /\ mainpc = "none"
  /\ \E n \in (0 - 1)..MaxAttempts : RetryEnter(n)
  /\ op' = "retryOperation"
  /\ result' = NoOut
  /\ faults' = 0
  /\ UNCHANGED <<isAuthenticated, clientAuthed, tz, authCalls>>
  /\ UNCHANGED <<fetchVars, orchVars>>
  /\ UNCHANGED runVars

RetryOperationEnds ==
  /\ op = "retryOperation"
  /\ rpc = "done"
  /\ result = NoOut
  /\ result' = rOut
  /\ UNCHANGED <<op, envVars, retryVars, fetchVars, orchVars>>
  /\ UNCHANGED runVars

(* -------------------- the same day download, again --------------------- *)

\* The caller runs downloadDayData a second time on the same downloader,
\* for the same date, against the same stubbed remote API.
DayDownloadAgain ==
  /\ mainpc = "none"
  /\ op \in {"ouraDay", "garminDay"}
  /\ dkind = op
  /\ result # NoOut
  /\ remote \in Stubs
  /\ prevRun = NoRun
  /\ prevRun' = [out |-> result.kind, rec |-> dayData, files |-> disk]
  /\ result' = NoOut
  /\ DayEnter(dkind, dayData.date)
  /\ disk' = <<>>
  /\ faults' = 0
  /\ UNCHANGED <<op, isAuthenticated, clientAuthed, tz, authCalls>>
  /\ UNCHANGED <<retryVars, fetchVars, bulkVars>>
  /\ UNCHANGED <<remote, now, mainpc, exitCode, reported, mainLog>>

(* ------------------------------- main() -------------------------------- *)

\* process.env.GARMIN_USERNAME / GARMIN_PASSWORD: both unset, only the
\* password unset (the placeholder password is used), set to credentials
\* Garmin does not accept, set to the right ones
GarminEnvs == {"unset", "noPassword", "wrong", "right"}

\* oura-token.txt: absent, unreadable, the template with the placeholder, a
\* token the API accepts, a token the API does not accept
OuraTokens == {"absent", "unreadable", "placeholder", "valid", "rejected"}

\* process.exit(1)
Exit(code, note) ==
  /\ mainpc' = "exited"
  /\ exitCode' = code
  /\ mainLog' = Append(mainLog, note)

\* nothing has been called on the downloader of this process yet
Fresh ==
  /\ op = "none"
  /\ mainpc = "none"
  /\ authCalls = 0
  /\ result = NoOut

\* main() of the Garmin script: const downloader = new GarminDataDownloader();
\* try { const username = process.env.GARMIN_USERNAME || '...'; ...
\*   if (username === 'your_garmin_email@example.com') { ...; process.exit(1) }
\*   await downloader.login(username, password);          -- the call
GarminMainStarts ==
  /\ Fresh
  /\ \E env \in GarminEnvs :
       IF env = "unset"
         THEN /\ Exit(1, "credentials")
              /\ UNCHANGED <<op, result, clientAuthed, authCalls, faults,
                             remote, retryVars>>
         ELSE /\ mainpc' = "login"
              /\ mainLog' = Append(mainLog, "login")
              /\ remote' = IF env = "right" THEN "live" ELSE "unauthorized"
              /\ op' = "login"
              /\ result' = NoOut
              /\ clientAuthed' = FALSE
              /\ authCalls' = authCalls + 1
              /\ faults' = 0
              /\ RetryEnter(retryAttempts)
              /\ UNCHANGED exitCode
  /\ UNCHANGED <<isAuthenticated, tz>>
  /\ UNCHANGED <<fetchVars, orchVars>>
  /\ UNCHANGED <<prevRun, now, reported>>

\* login() has settled: its error goes to the catch block of main(), which
\* ends with process.exit(1); otherwise
\*   const today = ...; await downloader.downloadAllData(today);  -- the call
GarminMainAfterLogin ==
  /\ mainpc = "login"
  /\ op = "none"
  /\ IF result.kind = "throw"
       THEN /\ Exit(1, "loginFailed")
            /\ UNCHANGED <<op, result, dayVars>>
       ELSE /\ mainpc' = "download"
            /\ mainLog' = Append(mainLog, "loggedIn")
            /\ op' = "garminAll"
            /\ IF isAuthenticated
                 THEN /\ \E d \in Dates : DayEnter("garminAll", d)
                      /\ result' = NoOut
                 ELSE /\ result' = Thrown(Err(NotAuthMsg, 0))
                      /\ UNCHANGED dayVars
            /\ UNCHANGED exitCode
  /\ UNCHANGED <<envVars, retryVars, fetchVars, bulkVars, disk>>
  /\ UNCHANGED <<remote, prevRun, now, reported>>

\* main() of the Oura script: try { accessToken = await loadToken(tokenFile);
\*   if (accessToken.includes('YOUR_TOKEN_HERE') || ...) throw ...
\* } catch (error) { ...; process.exit(1); }
\* const downloader = new OuraDataDownloader(accessToken);
\* const today = ...; await downloader.downloadDayData(today);   -- the call
OuraMainStarts ==
  /\ Fresh
  /\ \E tok \in OuraTokens :
       IF tok \in {"absent", "unreadable", "placeholder"}
         THEN /\ Exit(1, "token")
              /\ UNCHANGED <<op, result, remote, dayVars>>
         ELSE /\ mainpc' = "download"
              /\ mainLog' = Append(mainLog, "tokenLoaded")
              /\ remote' = IF tok = "valid" THEN "live" ELSE "unauthorized"
              /\ op' = "ouraDay"
              /\ result' = NoOut
              /\ \E d \in Dates : DayEnter("ouraDay", d)
              /\ UNCHANGED exitCode
  /\ faults' = 0
  /\ UNCHANGED <<isAuthenticated, clientAuthed, tz, authCalls>>
  /\ UNCHANGED <<retryVars, fetchVars, bulkVars, disk>>
  /\ UNCHANGED <<prevRun, now, reported>>

\* the download has settled: console.log('Download completed successfully!')
\* and main() returns, or the catch block of main() ends with process.exit(1)
MainAfterDownload ==
  /\ mainpc = "download"
  /\ result # NoOut
  /\ IF result.kind = "throw"
       THEN /\ Exit(1, "downloadFailed")
            /\ UNCHANGED reported
       ELSE /\ Exit(0, "completed")
            /\ reported' = TRUE
  /\ UNCHANGED <<envVars, topVars, retryVars, fetchVars, orchVars>>
  /\ UNCHANGED <<remote, prevRun, now>>

(* --------------------------- specification ----------------------------- *)

Init ==
  /\ isAuthenticated = FALSE
  /\ clientAuthed = FALSE
  /\ tz = UtcZone
  /\ faults = 0
  /\ authCalls = 0
  /\ op = "none"
  /\ result = NoOut
  /\ rpc = "idle"
  /\ rAttempts = 0
  /\ rI = 0
  /\ rOut = NoOut
  /\ opLog = <<>>
  /\ invocations = 0
  /\ delays = <<>>
  /\ inflight = 0
  /\ fpc = "idle"
  /\ fMetric = "none"
  /\ fOut = NoOut
  /\ fCalls = 0
  /\ paced = FALSE
  /\ dkind = "none"
  /\ dip = 0
  /\ dphase = "idle"
  /\ dayData = NoRecord
  /\ dErr = NoErr
  /\ fetched = <<>>
  /\ exhausted = {}
  /\ bkind = "none"
  /\ bip = 0
  /\ bphase = "idle"
  /\ bulkData = NoRecord
  /\ bErr = NoErr
  /\ currentDate = 0
  /\ endDate = 0
  /\ visited = <<>>
  /\ dayLog = <<>>
  /\ atSave = NoRecord
  /\ disk = <<>>
  /\ remote = "live"
  /\ prevRun = NoRun
  /\ now = 0
  /\ mainpc = "none"
  /\ exitCode = 0 - 1
  /\ reported = FALSE
  /\ mainLog = <<>>

Next ==
  \/ CallRetryOperation
  \/ RetryInvoke
  \/ RetryFallOff
  \/ OperationResolves
  \/ OperationRejects
  \/ RetrySleepEnds
  \/ RetryOperationEnds
  \/ FetcherGuardThrows
  \/ FetcherCallsRetry
  \/ FetcherReturns
  \/ FetcherCatches
  \/ DayCallsFetcher
  \/ DayStoresMetric
  \/ DaySleepEnds
  \/ DayCatchesFetcherError
  \/ DaySaveSucceeds
  \/ DaySaveFails
  \/ DayPartialSaveSucceeds
  \/ DayPartialSaveFails
  \/ DayBodyEnds
  \/ CallOuraDownloadDayData
  \/ CallGarminDownloadDayData
  \/ CallGarminDownloadAllData
  \/ DayDownloadEnds
  \/ BulkCallsFetcher
  \/ BulkFetcherEnds
  \/ BulkSleepEnds
  \/ BulkCallsDayDownload
  \/ BulkLoopEnds
  \/ OtherDayReturnsErrors
  \/ OtherDayRaises
  \/ BulkAccountsDay
  \/ BulkNextDay
  \/ BulkSaveSucceeds
  \/ BulkSaveFails
  \/ BulkPartialSaveSucceeds
  \/ BulkPartialSaveFails
  \/ CallOuraDownloadBulkData
  \/ CallGarminDownloadBulkData
  \/ BulkDownloadEnds
  \/ CallLogin
  \/ LoginEnds
  \/ LoginWithTokens
  \/ DayDownloadAgain
  \/ GarminMainStarts
  \/ GarminMainAfterLogin
  \/ OuraMainStarts
  \/ MainAfterDownload

Spec == Init /\ [][Next]_vars

\* The steps a run takes by itself once it was called: every awaited remote
\* call, timer and save settles, and the code after an await is then run.
\* The calls themselves are the caller's choice.
RunStep ==
  \/ RetryInvoke
  \/ RetryFallOff
  \/ OperationResolves
  \/ OperationRejects
  \/ RetrySleepEnds
  \/ RetryOperationEnds
  \/ FetcherGuardThrows
  \/ FetcherCallsRetry
  \/ FetcherReturns
  \/ FetcherCatches
  \/ DayCallsFetcher
  \/ DayStoresMetric
  \/ DaySleepEnds
  \/ DayCatchesFetcherError
  \/ DaySaveSucceeds
  \/ DaySaveFails
  \/ DayPartialSaveSucceeds
  \/ DayPartialSaveFails
  \/ DayBodyEnds
  \/ DayDownloadEnds
  \/ BulkCallsFetcher
  \/ BulkFetcherEnds
  \/ BulkSleepEnds
  \/ BulkCallsDayDownload
  \/ BulkLoopEnds
  \/ OtherDayReturnsErrors
  \/ OtherDayRaises
  \/ BulkAccountsDay
  \/ BulkNextDay
  \/ BulkSaveSucceeds
  \/ BulkSaveFails
  \/ BulkPartialSaveSucceeds
  \/ BulkPartialSaveFails
  \/ BulkDownloadEnds
  \/ LoginEnds
  \/ GarminMainAfterLogin
  \/ MainAfterDownload

\* The program when every promise it awaits settles.
LiveSpec == Spec /\ WF_vars(RunStep)

(* ============================== claims ================================= *)

\* the number of iterations `for (let i = 0; i < attempts; i++)` allows
AttemptsAllowed(n) == IF n > 0 THEN n ELSE 0

AllRetryDelays(n) == [k \in 1..n |-> retryDelay]

FailedAt(k) == opLog[k].kind = "throw"
SucceededAt(k) == opLog[k].kind = "return"

\* C1: a retryOperation with max_attempts = n >= 1 whose operation failed on
\* attempts 1..n-1 and succeeded on attempt n returns the value of that
\* attempt and has slept retryDelay exactly n-1 times.
C1_SuccessOnLastAttempt ==
  ( /\ rpc = "done"
    /\ rAttempts >= 1
    /\ Len(opLog) = rAttempts
    /\ \A k \in 1..(rAttempts - 1) : FailedAt(k)
    /\ SucceededAt(rAttempts) )
  => /\ rOut.kind = "return"
     /\ rOut.val = opLog[rAttempts].val
     /\ delays = AllRetryDelays(rAttempts - 1)
     /\ (op = "retryOperation" /\ result # NoOut => result = rOut)

C1_Witness ==
  /\ op = "retryOperation"
  /\ rpc = "done"
  /\ rAttempts = 3
  /\ Len(opLog) = 3
  /\ FailedAt(1) /\ FailedAt(2) /\ SucceededAt(3)
  /\ result.kind = "return"
  /\ result.val = "other"

\* C2: a retryOperation with max_attempts = n >= 1 whose operation failed on
\* all n attempts throws the error object of the n-th attempt itself and has
\* slept retryDelay exactly n-1 times (no sleep follows the last attempt).
C2_AllAttemptsFail ==
  ( /\ rpc = "done"
    /\ rAttempts >= 1
    /\ Len(opLog) = rAttempts
    /\ \A k \in 1..rAttempts : FailedAt(k) )
  => /\ rOut.kind = "throw"
     /\ rOut.err = opLog[rAttempts].err
     /\ rOut.err.id = rAttempts
     /\ delays = AllRetryDelays(rAttempts - 1)
     /\ (op = "retryOperation" /\ result # NoOut => result = rOut)

C2_Witness ==
  /\ op = "retryOperation"
  /\ rpc = "done"
  /\ rAttempts = 3
  /\ Len(opLog) = 3
  /\ FailedAt(1) /\ FailedAt(2) /\ FailedAt(3)
  /\ opLog[1].err.msg # opLog[3].err.msg
  /\ result.kind = "throw"
  /\ Len(delays) = 2

\* the part of C3 about retryOperation: the operation is never invoked
\* after an attempt succeeded nor more than max_attempts times, and when
\* retryOperation ends the number of invocations is the index of the first
\* successful attempt, or max_attempts when there is none
RetryInvocationCount ==
  /\ \A k \in 1..Len(opLog) :
       SucceededAt(k) => k = Len(opLog) /\ invocations = k /\ rpc = "done"
  /\ invocations <= AttemptsAllowed(rAttempts)
  /\ rpc = "done" =>
       /\ invocations = Len(opLog)
       /\ (\A k \in 1..Len(opLog) : FailedAt(k))
            => invocations = AttemptsAllowed(rAttempts)

\* C3 (as stated): the invocation count of retryOperation is as above, and
\* every metric fetcher call issues between 1 and retryAttempts remote calls.
C3_Original ==
  /\ RetryInvocationCount
  /\ fpc = "done" => fCalls \in 1..retryAttempts

\* C3 (amended): the invocation count of retryOperation is as above, and
\* every metric fetcher call issues between 1 and retryAttempts remote
\* calls, except a Garmin fetcher called while isAuthenticated is false: it
\* throws before it reaches retryOperation and issues none.
C3_InvocationsBounded ==
  /\ RetryInvocationCount
  /\ fpc = "done" =>
       IF Vendor = "garmin" /\ ~isAuthenticated
         THEN fCalls = 0 /\ fOut.kind = "throw"
         ELSE fCalls \in 1..retryAttempts /\ fOut.kind = "return"

C3_Witness ==
  /\ fpc = "done"
  /\ fOut.kind = "return"
  /\ fCalls = retryAttempts
  /\ fOut.val = Data

\* C4: in a day download, a fetcher whose remote call failed on every retry
\* attempt returns null or an empty list instead of raising, and all the
\* metrics after it in the day's sequence are fetched: the try block is only
\* left with every fetcher of the sequence called.
C4_ExhaustedFetcherDoesNotAbortDay ==
  dkind \in {"ouraDay", "garminDay", "garminAll"} =>
    /\ (fpc = "done" /\ fMetric \in exhausted) =>
         fOut.kind = "return" /\ fOut.val \in {Null, EmptyList}
    /\ \A m \in exhausted :
         (fpc = "idle" \/ fMetric # m) => dayData[m] \in {Null, EmptyList}
    /\ (exhausted # {} /\ (dphase \in {"returned", "partial", "raised"}
                           \/ DayAt("save")))
         => fetched = MetricsOf(DayBody(dkind))

C4_Witness ==
  /\ op = "ouraDay"
  /\ result.kind = "return"
  /\ exhausted = {"sleep"}
  /\ dayData.sleep = EmptyList
  /\ dayData.tags = Data
  /\ Len(fetched) = 8

\* the range loop of the Garmin downloadBulkData is over
RangeLoopOver ==
  /\ bkind = "garminBulk"
  /\ BulkAt("save") \/ bphase \in {"returned", "raised"}

\* the calendar dates start, start + 1, ..., end
DatesOfInterval(s, e) == [k \in 1..(e - s + 1) |-> s + k - 1]

\* C5: for every range with start <= end the Garmin downloadBulkData calls
\* the day download exactly once for each date of [start, end], in ascending
\* order and without revisiting a date, and at the end summary.totalDays is
\* the number of dates of the interval.
C5_EachDateOnce ==
  (RangeLoopOver /\ bulkData.startDate <= bulkData.endDate) =>
    /\ visited = DatesOfInterval(bulkData.startDate, bulkData.endDate)
    /\ bulkData.summary.totalDays
         = bulkData.endDate - bulkData.startDate + 1

DaysFailed ==
  {k \in 1..Len(dayLog) : dayLog[k].raised \/ Len(dayLog[k].errors) > 0}

DaysSucceeded ==
  {k \in 1..Len(dayLog) : ~dayLog[k].raised /\ Len(dayLog[k].errors) = 0}

\* C7: in the range download every visited day is counted in exactly one of
\* successfulDays / failedDays: in failedDays if and only if its record's
\* errors list is non-empty or the day download raised, in successfulDays
\* otherwise.
C7_DayCountedOnce ==
  bkind = "garminBulk" =>
    /\ Len(dayLog) = Len(visited) - (IF bphase = "day" THEN 1 ELSE 0)
    /\ bulkData.summary.failedDays = Cardinality(DaysFailed)
    /\ bulkData.summary.successfulDays = Cardinality(DaysSucceeded)
    /\ bulkData.summary.failedDays + bulkData.summary.successfulDays
         = Len(dayLog)

C7_Witness ==
  /\ op = "garminBulk"
  /\ result.kind = "return"
  /\ Len(dayLog) = 3
  /\ \E i, j, k \in 1..3 :
       /\ dayLog[i].raised
       /\ ~dayLog[j].raised /\ Len(dayLog[j].errors) > 0
       /\ ~dayLog[k].raised /\ Len(dayLog[k].errors) = 0
  /\ bulkData.summary.failedDays = 2
  /\ bulkData.summary.successfulDays = 1

\* bulkData.errors, where the record has such a field
RangeErrors(rec) == IF "errors" \in DOMAIN rec THEN rec.errors ELSE <<>>

DayCaught == dkind \in DayOps /\ Len(dayData.errors) > 0

\* the day download has settled for its caller
DaySettled == op \in DayOps /\ op = dkind /\ result # NoOut

\* C9 (as stated): each of the three day downloads, when an error occurs in
\* its sequence, catches it once, appends its message to the record's
\* errors and returns the record to the caller instead of raising.
C9_Original ==
  DayCaught =>
    /\ Len(dayData.errors) = 1
    /\ dayData.errors[1] = dErr.msg
    /\ dphase = "returned"
    /\ DaySettled => result.kind = "return"

\* C9 (amended): each of the three day downloads catches an error of its
\* sequence once and appends its message to the record's errors.  The
\* Garmin downloadDayData then returns the record and never raises.  The
\* Oura downloadDayData and the Garmin downloadAllData save the record
\* under the _partial name and raise: the caught error, or the error of the
\* _partial save when that save fails too.
C9_CatchOnce ==
  /\ dkind = "garminDay" => dphase \notin {"partial", "raised"}
  /\ DayCaught =>
       /\ Len(dayData.errors) = 1
       /\ dayData.errors[1] = dErr.msg
       /\ IF dkind = "garminDay"
            THEN /\ dphase = "returned"
                 /\ DaySettled => result.kind = "return"
            ELSE /\ dphase \in {"partial", "raised"}
                 /\ (dphase = "raised" /\ dErr.id = 1) =>
                      /\ Len(disk) > 0
                      /\ disk[Len(disk)].name.partial
                      /\ disk[Len(disk)].data = dayData
                 /\ DaySettled =>
                      result.kind = "throw" /\ result.err = dErr

C9_Witness ==
  /\ op = "garminDay"
  /\ result.kind = "return"
  /\ dkind = "garminDay"
  /\ dayData.errors = <<NotAuthMsg>>
  /\ Len(fetched) = 1

C9_WitnessRaised ==
  /\ op = "ouraDay"
  /\ result.kind = "throw"
  /\ dayData.errors = <<SaveFailMsg>>
  /\ Len(disk) = 1

\* saveToDisk failed at the end of the range download
RangeSaveFailed == bkind \in BulkOps /\ bErr.msg = SaveFailMsg

\* C10: when saveToDisk fails at the end of a range download, the failure
\* reaches the caller of downloadBulkData, and the range record in memory
\* still holds every day record (Garmin) or metric result (Oura) it held
\* when the save was attempted, none removed or reset.
C10_SaveFailureKeepsRecord ==
  RangeSaveFailed =>
    /\ bphase \in {"partial", "raised"}
    /\ (op = bkind /\ result # NoOut) =>
         /\ result.kind = "throw"
         /\ result.err.msg = SaveFailMsg
    /\ IF bkind = "garminBulk"
         THEN /\ bulkData = atSave
              /\ Len(bulkData.dailyData)
                   = Cardinality({k \in 1..Len(dayLog) : ~dayLog[k].raised})
         ELSE /\ \A f \in DOMAIN bulkData \ {"errors"} :
                   bulkData[f] = atSave[f]
              /\ bulkData.errors = Append(atSave.errors, SaveFailMsg)

C10_Witness ==
  /\ op = "garminBulk"
  /\ result.kind = "throw"
  /\ result.err.msg = SaveFailMsg
  /\ Len(bulkData.dailyData) = 3
  /\ bulkData.summary.totalDays = 3

C10_WitnessOura ==
  /\ op = "ouraBulk"
  /\ result.kind = "throw"
  /\ result.err.msg = SaveFailMsg
  /\ bulkData.sleep = Data
  /\ bulkData.personalInfo = Null

\* the last file written is the range record under its full name
RangeSaved ==
  /\ Len(disk) > 0
  /\ ~disk[Len(disk)].name.partial
  /\ disk[Len(disk)].data = bulkData

\* C11: a range download that got past its authentication check raises to
\* its caller only if saveToDisk failed: whatever fetchers and day downloads
\* failed, the catch block is entered from the save only, and a range
\* download whose save succeeded returns the range record.
C11_RaisesOnlyOnSaveFailure ==
  bkind \in BulkOps =>
    /\ bphase \in {"partial", "raised"} =>
         /\ bErr.msg = SaveFailMsg
         /\ atSave # NoRecord
         /\ BulkBody(bkind)[bip].k = "save"
    /\ (op = bkind /\ result.kind = "throw") => result.err.msg = SaveFailMsg
    /\ bphase = "returned" <=> RangeSaved
    /\ (op = bkind /\ RangeSaved /\ result # NoOut) => result.kind = "return"

C11_Witness ==
  /\ op = "garminBulk"
  /\ result.kind = "return"
  /\ RangeSaved
  /\ bulkData.profile = Data
  /\ \E k \in 1..Len(dayLog) : dayLog[k].raised
  /\ \E k \in 1..Len(dayLog) : ~dayLog[k].raised /\ Len(dayLog[k].errors) > 0

C11_WitnessFetchers ==
  /\ op = "ouraBulk"
  /\ result.kind = "return"
  /\ RangeSaved
  /\ exhausted = {"sleep"}
  /\ bulkData.sleep = EmptyList
  /\ bulkData.tags = Data

\* a save under the _partial name was attempted: the file was written, or
\* the error in flight is the one of that second save
PartialSaveAttempted(e) ==
  \/ e = SaveError(2)
  \/ Len(disk) > 0 /\ disk[Len(disk)].name.partial

\* C12: in every orchestrator (Garmin downloadAllData and downloadBulkData,
\* Oura downloadDayData and downloadBulkData), when the save of the record
\* failed, a save under a name ending in _partial.json has been attempted
\* before the error leaves the orchestrator.
C12_PartialSaveAttempted ==
  /\ (dkind \in {"ouraDay", "garminAll"} /\ dphase = "raised")
       => PartialSaveAttempted(dErr)
  /\ (bkind \in BulkOps /\ bphase = "raised")
       => PartialSaveAttempted(bErr)

\* the record written last is the one of the orchestrator that wrote it
SavedByDay == dkind \in DayOps /\ op = dkind
SavedByRange == bkind \in BulkOps /\ op = bkind

\* C13: a record is saved under a name with the _partial suffix exactly
\* when the save follows a caught error (the record then carries the error's
\* message); a save after the whole fetch sequence uses the name without
\* the suffix; and no run saves its record successfully under both names.
C13_PartialSuffixIffCaught ==
  /\ Len(disk) <= 1
  /\ \A i \in 1..Len(disk) :
       /\ disk[i].name.partial <=> Len(RangeErrors(disk[i].data)) > 0
       /\ (disk[i].name.partial /\ SavedByDay) =>
            dphase = "raised" /\ dErr = SaveError(1)
       /\ (disk[i].name.partial /\ SavedByRange) =>
            bphase = "raised" /\ bErr = SaveError(1)
       /\ (~disk[i].name.partial /\ SavedByDay) =>
            /\ dphase = "returned"
            /\ fetched = MetricsOf(DayBody(dkind))
       /\ (~disk[i].name.partial /\ SavedByRange) => bphase = "returned"

C13_Witness ==
  /\ op = "garminAll"
  /\ result.kind = "throw"
  /\ Len(disk) = 1
  /\ disk[1].name = FileName("garmin_data", <<dayData.date>>, TRUE)
  /\ disk[1].data.errors = <<SaveFailMsg>>

\* the messages of errors that are raised outside the fetcher bodies
RaisedOutsideFetchers == {SaveFailMsg}

\* C14 (as stated): a remote call that failed on every retry adds nothing
\* to the record's errors list, the list only receives messages of errors
\* raised outside the fetcher bodies, and a day in which only remote calls
\* failed ends with an empty errors list.
C14_Original ==
  /\ dkind \in DayOps =>
       /\ \A i \in 1..Len(dayData.errors) :
            /\ dayData.errors[i] \notin RemoteErrors
            /\ dayData.errors[i] \in RaisedOutsideFetchers
       /\ (dphase = "returned" /\ exhausted # {}) => dayData.errors = <<>>
  /\ bkind = "ouraBulk" =>
       \A i \in 1..Len(bulkData.errors) :
         /\ bulkData.errors[i] \notin RemoteErrors
         /\ bulkData.errors[i] \in RaisedOutsideFetchers

\* C14 (amended): a remote call that failed on every retry adds nothing to
\* the record's errors list; the list only receives the message of a save
\* failure or, in the Garmin downloadDayData of an unauthenticated
\* downloader, the 'Not authenticated' message a fetcher throws before its
\* try block; and a day in which only remote calls failed ends with an
\* empty errors list.
C14_RemoteFailuresNotInErrors ==
  /\ dkind \in DayOps =>
       /\ \A i \in 1..Len(dayData.errors) :
            /\ dayData.errors[i] \notin RemoteErrors
            /\ \/ /\ dayData.errors[i] = SaveFailMsg
                  /\ dphase \in {"partial", "raised"}
               \/ /\ dayData.errors[i] = NotAuthMsg
                  /\ dkind = "garminDay"
                  /\ ~isAuthenticated
                  /\ exhausted = {}
       /\ (dphase = "returned" /\ exhausted # {}) => dayData.errors = <<>>
  /\ bkind = "ouraBulk" =>
       \A i \in 1..Len(bulkData.errors) : bulkData.errors[i] = SaveFailMsg

C14_Witness ==
  /\ op = "garminDay"
  /\ isAuthenticated
  /\ result.kind = "return"
  /\ exhausted = {"heartRate"}
  /\ dayData.heartRate = Null
  /\ dayData.stress = Data
  /\ dayData.errors = <<>>

\* the day download that saves its record is about to hand it to
\* saveToDisk, or has done so
DayRecordHanded ==
  /\ dkind \in {"ouraDay", "garminAll"}
  /\ DayAt("save") \/ dphase \in {"partial", "raised", "returned"}

\* the same for the range record, whose dailyData holds the day records of
\* the Garmin range download
RangeRecordHanded ==
  /\ bkind = "garminBulk"
  /\ BulkAt("save") \/ bphase \in {"partial", "raised", "returned"}

\* the step stays within the run that built the record (a later run of the
\* day download builds a record of its own)
SameRun == prevRun' = prevRun

\* C15 (as stated): a day record is never modified after it has been handed
\* to saveToDisk: from the first call of saveToDisk on, no step of the run
\* changes any of its fields.
C15_Original ==
  [][ /\ (DayRecordHanded /\ SameRun) => dayData' = dayData
      /\ RangeRecordHanded => bulkData'.dailyData = bulkData.dailyData ]_vars

\* C15 (amended): a day record is never modified after a saveToDisk that
\* succeeded on it.  When the first saveToDisk fails, the catch block
\* appends the message of the save error to the record's errors, and
\* changes no other field; from then on (the _partial save included) no
\* step changes the record.
C15_OnlySaveErrorAppended ==
  [][ /\ (DayRecordHanded /\ SameRun) =>
           IF DayAt("save") /\ dphase' # "returned"
             THEN /\ dayData' = [dayData EXCEPT
                                   !.errors = Append(@, SaveFailMsg)]
                  /\ dphase' = "partial"
             ELSE dayData' = dayData
      /\ RangeRecordHanded => bulkData'.dailyData = bulkData.dailyData ]_vars

C15_Witness ==
  /\ op = "ouraDay"
  /\ dphase = "raised"
  /\ dErr = SaveError(1)
  /\ dayData.errors = <<SaveFailMsg>>
  /\ dayData.sleep = Data
  /\ disk = <<[name |-> FileName("oura_data", <<dayData.date>>, TRUE),
               data |-> dayData]>>

IsPrefix(s, t) ==
  /\ Len(s) <= Len(t)
  /\ \A i \in 1..Len(s) : s[i] = t[i]

\* the orders the day downloads are said to fetch in
GarminDayOrder == <<"dailySummary", "heartRate", "sleep", "stress">>

OuraDayOrder ==
  <<"personalInfo", "sleep", "activity", "readiness", "heartRate",
    "workouts", "sessions", "tags">>

\* C16: within one day download the fetchers are called in one fixed order,
\* whatever the earlier fetches returned (Garmin downloadDayData:
\* dailySummary, heartRate, sleep, stress; Oura downloadDayData:
\* personalInfo, sleep, activity, readiness, heartRate, workouts, sessions,
\* tags), and a fetcher is only called once the previous one has finished:
\* the only fetcher ever running is the one called last, with at most one
\* remote call in flight.
C16_FixedFetchOrder ==
  /\ dkind = "garminDay" => IsPrefix(fetched, GarminDayOrder)
  /\ dkind = "ouraDay" => IsPrefix(fetched, OuraDayOrder)
  /\ dkind \in DayOps =>
       /\ inflight <= 1
       /\ IF dphase = "fetching"
            THEN fMetric = fetched[Len(fetched)]
            ELSE fpc = "idle" /\ rpc = "idle" /\ inflight = 0
       /\ (dphase = "returned" /\ dErr = NoErr) =>
            fetched = MetricsOf(DayBody(dkind))

C16_Witness ==
  /\ op = "garminDay"
  /\ isAuthenticated
  /\ result.kind = "return"
  /\ exhausted = {"dailySummary"}
  /\ dayData.dailySummary = Null
  /\ dayData.heartRate = Data
  /\ fetched = GarminDayOrder

\* both runs of the day download have settled
RanTwice == prevRun # NoRun /\ result # NoOut /\ dkind = op

\* C17: running the day download twice for the same date against a remote
\* API with fixed answers gives two day records that are equal in every
\* field but downloadedAt, and the two runs end the same way: the first run
\* leaves nothing in the downloader that changes the second.
C17_SecondRunSameRecord ==
  RanTwice =>
    /\ DOMAIN dayData = DOMAIN prevRun.rec
    /\ (prevRun.out = "return" /\ result.kind = "return") =>
         \A f \in DOMAIN dayData \ {"downloadedAt"} :
           dayData[f] = prevRun.rec[f]
    /\ op = "garminDay" =>
         /\ prevRun.out = "return"
         /\ result.kind = "return"
    /\ dayData.date = prevRun.rec.date

C17_Witness ==
  /\ RanTwice
  /\ op = "ouraDay"
  /\ remote = "stubSleepDown"
  /\ prevRun.out = "return"
  /\ result.kind = "return"
  /\ dayData.sleep = EmptyList
  /\ dayData.activity = Data
  /\ dayData.downloadedAt # prevRun.rec.downloadedAt

\* a metric fetcher has been called, or is running
MetricFetchSeen == fpc # "idle" \/ fetched # <<>> \/ dkind # "none"

\* main() has met a failed login, or a token it could not load
AuthFailedInMain ==
  \E k \in 1..Len(mainLog) : mainLog[k] \in {"loginFailed", "token"}

\* C18: an authentication failure aborts the run before any fetch.  In the
\* Garmin downloader no remote metric call is issued while isAuthenticated
\* is false: a fetcher called then throws 'Not authenticated' without a
\* remote call, and downloadBulkData and downloadAllData throw it before
\* they call a fetcher.  In both main() flows no metric fetcher is called
\* once login or the loading of the token has failed.
C18_NoFetchWithoutAuthentication ==
  /\ (op \in GarminOps /\ ~isAuthenticated) =>
       /\ rpc = "idle" /\ inflight = 0 /\ fCalls = 0
       /\ fpc = "done" => fOut = Thrown(Err(NotAuthMsg, 0))
       /\ bkind = "none"
       /\ dkind # "garminAll"
       /\ (op \in {"garminBulk", "garminAll"} /\ mainpc = "none") =>
            result = Thrown(Err(NotAuthMsg, 0))
  /\ AuthFailedInMain =>
       /\ mainpc = "exited"
       /\ exitCode = 1
       /\ ~MetricFetchSeen
       /\ Len(disk) = 0

C18_Witness ==
  /\ mainpc = "exited"
  /\ mainLog = <<"login", "loginFailed">>
  /\ ~isAuthenticated
  /\ result.kind = "throw"
  /\ result.err.msg = LoginErrorMessage("Request failed with status code 401")

C18_WitnessFetcher ==
  /\ op = "garminDay"
  /\ ~isAuthenticated
  /\ fpc = "done"
  /\ fOut = Thrown(Err(NotAuthMsg, 0))

\* which attempts of the current retryOperation succeeded and which failed
AttemptPattern == [k \in 1..Len(opLog) |-> opLog[k].kind]

FailuresIn(pattern) ==
  Cardinality({k \in 1..Len(pattern) : pattern[k] = "throw"})

\* C19: retryOperation treats all failures alike.  The number of
\* invocations, the number of delays and the success-or-raise outcome are
\* determined by the positions at which the attempts succeeded and failed,
\* whatever the errors were (a 401 or a network error): a failure before the
\* last attempt is always followed by a delay and another attempt.
C19_ErrorKindIgnored ==
  /\ \A k \in 1..(Len(opLog) - 1) : AttemptPattern[k] = "throw"
  /\ rpc = "sleep" =>
       /\ AttemptPattern[Len(opLog)] = "throw"
       /\ Len(opLog) < rAttempts
  /\ (rpc = "done" /\ rAttempts >= 1) =>
       /\ invocations = Len(AttemptPattern)
       /\ rOut.kind = AttemptPattern[Len(opLog)]
       /\ Len(delays) = FailuresIn(AttemptPattern)
                          - (IF rOut.kind = "throw" THEN 1 ELSE 0)
       /\ rOut.kind = "throw" <=>
            FailuresIn(AttemptPattern) = rAttempts

C19_Witness ==
  /\ op = "retryOperation"
  /\ rpc = "done"
  /\ rAttempts = 3
  /\ Len(opLog) = 3
  /\ opLog[1].err.msg \in Mentions401
  /\ opLog[2].err.msg \in MentionsNetwork
  /\ opLog[3].kind = "return"
  /\ Len(delays) = 2

C19_WitnessLogin ==
  /\ op = "login"
  /\ rpc = "done"
  /\ rOut.kind = "throw"
  /\ \A k \in 1..3 : opLog[k].err.msg \in Mentions401
  /\ invocations = 3

\* main() has met missing or placeholder credentials, a failed
\* authentication (a login that failed, or credentials / a token the remote
\* API does not accept), or a failed save
FailureInMain ==
  \/ \E k \in 1..Len(mainLog) :
       mainLog[k] \in {"credentials", "token", "loginFailed"}
  \/ remote = "unauthorized"
  \/ dkind \in DayOps /\ dErr.msg = SaveFailMsg

\* C20: each vendor's main() ends with a non-zero exit status whenever the
\* credentials are missing or placeholders, the authentication fails, or
\* the save fails, and in none of these cases logs 'Download completed
\* successfully'.
C20_FailureExitsNonZero ==
  (mainpc = "exited" /\ FailureInMain) =>
    /\ exitCode # 0
    /\ ~reported

\* a step in which a metric fetcher is called
FetcherIsCalled == fpc = "idle" /\ fpc' = "entered"

\* no fetcher has been called yet in this run of the orchestrator
FirstFetchOfRun ==
  IF op \in BulkOps THEN bip = 1 /\ bphase = "run" ELSE fetched = <<>>

\* C21: between any two consecutive fetcher calls of one run of an
\* orchestrator (within a day and, in the range download, from one day to
\* the next) a pacing sleep has ended, whatever the earlier fetch returned
\* and however the day ended.
C21_PacedBetweenFetches ==
  [][ (FetcherIsCalled /\ ~FirstFetchOfRun) => paced ]_vars

C21_Witness ==
  /\ op = "garminBulk"
  /\ bphase = "day"
  /\ dkind = "garminDay"
  /\ fpc = "entered"
  /\ fMetric = "dailySummary"
  /\ Len(visited) = 3
  /\ dayLog[1].raised
  /\ Len(dayLog[2].errors) > 0

\* C22: during a run at most one remote call is in flight at any time: a
\* call is in flight exactly while retryOperation awaits its operation, and
\* a retry, a delay or the next fetcher only starts once it has completed.
C22_OneCallInFlight ==
  /\ inflight \in {0, 1}
  /\ inflight = 1 <=> rpc = "await"
  /\ fpc \in {"entered", "done"} => inflight = 0
  /\ (op \in OuraOps \cup GarminOps /\ fpc = "idle") => inflight = 0

C22_Witness ==
  /\ op = "ouraBulk"
  /\ inflight = 1
  /\ fMetric = "activity"
  /\ rI = 1
  /\ Len(delays) = 1
  /\ bulkData.sleep = Data

\* the metrics the Oura range download is said to request, once each, for
\* the whole range
OuraRangeMetrics ==
  <<"personalInfo", "sleep", "activity", "readiness", "heartRate",
    "workouts", "sessions", "tags", "restMode", "ringConfiguration">>

\* C23 (as stated): the Oura downloadBulkData, like the Garmin one,
\* performs one day download per calendar date of the range and yields a
\* record with an ordered list of day records and a summary of the total,
\* succeeded and failed days.
C23_Original ==
  (bkind = "ouraBulk" /\ bphase = "returned") =>
    /\ {"dailyData", "summary"} \subseteq DOMAIN bulkData
    /\ bulkData.startDate <= bulkData.endDate =>
         Len(visited) = bulkData.endDate - bulkData.startDate + 1

\* C23 (amended): the two range downloads differ in structure.  The Garmin
\* downloadBulkData calls the day download in a loop over the dates and
\* yields dailyData and a summary.  The Oura downloadBulkData performs no
\* day download: it calls each of its ten fetchers once for the whole range
\* and yields a record with one entry per metric and an errors list, without
\* a list of day records and without a summary.
C23_OuraRangeIsPerMetric ==
  /\ bkind = "ouraBulk" =>
       /\ dkind = "none" /\ visited = <<>> /\ dayLog = <<>>
       /\ DOMAIN bulkData
            = {"startDate", "endDate", "downloadedAt", "errors"}
                \cup {OuraRangeMetrics[i] : i \in 1..Len(OuraRangeMetrics)}
       /\ MetricsOf(BulkBody(bkind)) = OuraRangeMetrics
       /\ (BulkAt("save") \/ bphase \in {"returned", "partial", "raised"})
            => bip = Len(BulkBody(bkind))
  /\ bkind = "garminBulk" =>
       /\ {"dailyData", "summary"} \subseteq DOMAIN bulkData
       /\ "errors" \notin DOMAIN bulkData
       /\ Len(bulkData.dailyData) <= Len(visited)

C23_Witness ==
  /\ op = "ouraBulk"
  /\ result.kind = "return"
  /\ bulkData.startDate = 0
  /\ bulkData.endDate = 2
  /\ bulkData.ringConfiguration = Data
  /\ visited = <<>>

\* the metrics of the Garmin day record from the k-th of the sequence on
GarminDayMetricsFrom(k) ==
  {GarminDayOrder[i] : i \in k..Len(GarminDayOrder)}

\* C24: in Garmin downloadDayData, once an error has escaped a fetcher (the
\* 'Not authenticated' check is outside the fetcher's try block), no later
\* fetcher of that day is called, the metrics not yet fetched stay null,
\* and the record that is returned has exactly one entry in errors.
C24_EscapedErrorEndsDay ==
  (dkind = "garminDay" /\ Len(dayData.errors) > 0) =>
    /\ dayData.errors = <<dErr.msg>>
    /\ dphase = "returned"
    /\ fpc = "idle" /\ rpc = "idle"
    /\ Len(fetched) >= 1
    /\ IsPrefix(fetched, GarminDayOrder)
    /\ \A m \in GarminDayMetricsFrom(Len(fetched)) : dayData[m] = Null
    /\ (op = "garminDay" /\ result # NoOut) => result.kind = "return"

C24_Witness ==
  /\ op = "garminDay"
  /\ result.kind = "return"
  /\ ~isAuthenticated
  /\ fetched = <<"dailySummary">>
  /\ dayData.errors = <<NotAuthMsg>>
  /\ dayData.stress = Null
  /\ prevRun = NoRun

\* C25: after any sequence of login and loginWithTokens calls on a Garmin
\* downloader, isAuthenticated is true only if the client held in GCClient
\* is an authenticated one; a login() that fails never leaves
\* isAuthenticated true together with a fresh, unauthenticated client.
C25_AuthenticatedMeansClientIs ==
  (op # "login" /\ isAuthenticated) => clientAuthed

\* C26: retryOperation called with attempts <= 0 never invokes the
\* operation, performs no delay, and completes without raising, returning
\* undefined: the caller gets neither a result nor a failure.
C26_ZeroAttemptsFallThrough ==
  (op = "retryOperation" /\ rpc # "idle" /\ rAttempts <= 0) =>
    /\ invocations = 0
    /\ opLog = <<>>
    /\ delays = <<>>
    /\ inflight = 0
    /\ rpc \in {"loop", "done"}
    /\ rpc = "done" => rOut = [kind |-> "undefined", val |-> Undefined, err |-> NoErr]
    /\ result # NoOut =>
         /\ result.kind = "undefined"
         /\ result.val = Undefined
         /\ result.err = NoErr

C26_Witness ==
  /\ op = "retryOperation"
  /\ rAttempts = 0
  /\ rpc = "done"
  /\ result.kind = "undefined"
  /\ invocations = 0
  /\ delays = <<>>

C26_WitnessNegative ==
  /\ op = "retryOperation"
  /\ rAttempts < 0
  /\ result.kind = "undefined"
  /\ invocations = 0

\* the Garmin downloadBulkData was called with start later than end
EmptyRange == bkind = "garminBulk" /\ bulkData.startDate > bulkData.endDate

NoDays == [totalDays |-> 0, successfulDays |-> 0, failedDays |-> 0]

EmptyRangeState ==
  EmptyRange =>
    /\ visited = <<>>
    /\ dayLog = <<>>
    /\ dkind = "none"
    /\ bulkData.dailyData = <<>>
    /\ bulkData.summary = NoDays
    /\ RangeLoopOver => bip = Len(GarminBulkBody)
    /\ bphase = "returned" =>
         /\ atSave = bulkData
         /\ disk = <<[name |-> FileName("garmin_bulk", BulkDates(bulkData),
                                        FALSE),
                      data |-> bulkData]>>
    /\ bphase = "raised" => bErr = SaveError(1) /\ atSave = bulkData
    /\ (op = "garminBulk" /\ result # NoOut) =>
         \/ bphase = "returned" /\ result = Returned("bulkData")
         \/ bphase = "raised" /\ result = Thrown(SaveError(1))

EmptyRangeStep ==
  EmptyRange =>
    /\ bip' >= bip
    /\ FetcherIsCalled =>
         /\ BulkAt("fetch")
         /\ fMetric' = GarminBulkBody[bip].m
         /\ fMetric' \in {"profile", "activities"}
    /\ (fpc = "done" /\ fpc' = "idle") => bip' = bip + 1

\* C27: the Garmin downloadBulkData called with start later than end
\* performs no day download, leaves dailyData empty and summary at
\* {totalDays: 0, successfulDays: 0, failedDays: 0}, fetches profile and
\* activities once each, saves the record and returns it; the only way it
\* raises is a save that fails, as for any other range.
C27_EmptyRangeDownloadsNoDay ==
  []EmptyRangeState /\ [][EmptyRangeStep]_vars

C27_Witness ==
  /\ op = "garminBulk"
  /\ EmptyRange
  /\ result = Returned("bulkData")
  /\ bulkData.startDate = 2
  /\ bulkData.endDate = 0
  /\ bulkData.profile = Data
  /\ bulkData.activities = Data
  /\ bulkData.dailyData = <<>>
  /\ Len(disk) = 1

\* a call was made and its promise has not settled
Running == op # "none" /\ result = NoOut

RunsTerminate == Running ~> ~Running

EndsInReturnOrError ==
  result # NoOut => result.kind \in {"return", "throw", "undefined"}

RetryStepBound ==
  rpc # "idle" => invocations <= (IF rAttempts > 0 THEN rAttempts ELSE 0)

DayStepBound ==
  dkind \in {"ouraDay", "garminDay", "garminAll"} =>
    /\ Len(fetched) <= Len(MetricsOf(DayBody(dkind)))
    /\ IsPrefix(fetched, MetricsOf(DayBody(dkind)))

\* the number of dates of [s, e]
NumberOfDates(s, e) == IF s <= e THEN e - s + 1 ELSE 0

RangeStepBound ==
  RangeLoopOver =>
    Len(visited) = NumberOfDates(bulkData.startDate, bulkData.endDate)

RangeStepsFinite ==
  bkind = "garminBulk" => Len(visited) <= MaxDay + 2

\* C28: if every remote call and every save eventually completes, each run
\* terminates in a return or a raised error: retryOperation after at most
\* max_attempts invocations, a day download after its fixed number of
\* fetchers, and the range download after as many loop iterations as there
\* are dates in [start, end].
C28_RunsTerminateInBoundedSteps ==
  /\ RunsTerminate
  /\ [](EndsInReturnOrError /\ RetryStepBound /\ DayStepBound)
  /\ []RangeStepBound

\* what holds of it: termination, with the iterations of the range loop
\* bounded but not counted
C28_RunsTerminate ==
  /\ RunsTerminate
  /\ [](EndsInReturnOrError /\ RetryStepBound /\ DayStepBound)
  /\ []RangeStepsFinite

\* in a process whose time zone has no transition the count is the claimed one
C28_CountWithoutTransition ==
  tz = UtcZone => RangeStepBound

====
